---- MODULE Spec2Model ----
(***************************************************************************)
(* A model of AiryWaves1D: the AiryWaves field (airy_waves/sim.py), the    *)
(* AiryWavesDrawer (airy_waves/drawer.py) and the driving loop (main.py).  *)
(*                                                                         *)
(* Numbers.  Lengths are integers in millimetres.  The phase k*x - omega*t *)
(* is kept in eighths of a cycle: k*x is (8*x) \div wavelength eighths and *)
(* one unit of model time (a tick) is the eighth of a wave period, so that *)
(* omega*t is t eighths.  cos and sin are read from an eight-entry table   *)
(* in thousandths.  The positive factor a*g*k/omega and the cosh/sinh      *)
(* depth factors of the velocity are kept symbolic: a velocity records     *)
(* which return statement produced it and the arguments of its factors.    *)
(***************************************************************************)
EXTENDS Integers, Sequences, FiniteSets, TLC

VARIABLES
    wave,        \* the AiryWaves object: a, wavelength, h, g, k, omega, t
    ctor,        \* outcome of the last constructor call
    call,        \* the last operation requested on the wave object
    result,      \* what that operation returned or raised
    lastUpdate,  \* the argument of the most recent update call (0 if none)
    drawer,      \* the AiryWavesDrawer object
    frame,       \* the draw() call in progress and what it has put on the screen
    args,        \* main: the parsed command line (dt, duration)
    pc,          \* main: the statement the driving loop is at
    running,     \* main: the loop flag
    current_time, \* main: the elapsed simulation time
    obs          \* what the driving loop has been seen to do

fieldVars == <<wave, ctor, call, result, lastUpdate>>
drawVars == <<drawer, frame>>
mainVars == <<args, pc, running, current_time, obs>>

vars == <<fieldVars, drawVars, mainVars>>

----------------------------------------------------------------------------
(* Bounds of the model. *)

\* update(t) arguments range over -MaxT..MaxT ticks.
MaxT == 4

\* grid_x and grid_y range over 0..MaxGrid.
MaxGrid == 4

\* The event queue may stay free of a quit event only while the elapsed
\* simulation time is within -MaxTime..MaxTime.
MaxTime == 6

----------------------------------------------------------------------------
(* Fixed-point trigonometry. *)

CosTable == <<1000, 707, 0, -707, -1000, -707, 0, 707>>

PhaseSteps == Len(CosTable)

CosMilli(p) == CosTable[(p % PhaseSteps) + 1]

SinMilli(p) == CosMilli(p - 2)

----------------------------------------------------------------------------
(* Python floats, as far as the constructor tells them apart: a finite value, *)
(* an infinity with its sign, or nan.  A derived quantity whose magnitude is  *)
(* irrational (k, omega) is kept as the sign of a finite value.               *)

Fin(v) == [cls |-> "fin", val |-> v]
Inf(s) == [cls |-> "inf", val |-> s]
NaN == [cls |-> "nan", val |-> 0]

Sign(v) == IF v > 0 THEN 1 ELSE IF v < 0 THEN -1 ELSE 0

\* x * y: nan propagates, inf * 0 is nan.
FMul(x, y) ==
    IF x.cls = "nan" \/ y.cls = "nan" THEN NaN
    ELSE IF x.cls = "inf" \/ y.cls = "inf"
         THEN IF x.val = 0 \/ y.val = 0 THEN NaN ELSE Inf(Sign(x.val) * Sign(y.val))
         ELSE Fin(Sign(x.val) * Sign(y.val))

\* np.tanh: tanh(+-inf) = +-1.
FTanh(x) == IF x.cls = "nan" THEN NaN ELSE Fin(Sign(x.val))

\* np.sqrt: nan (with a warning, no exception) for a negative argument.
FSqrt(x) ==
    IF x.cls = "nan" \/ x.val < 0 THEN NaN
    ELSE IF x.cls = "inf" THEN Inf(1) ELSE Fin(Sign(x.val))

\* 2 * np.pi / wavelength for a nonzero wavelength: 0.0 for an infinite one.
TwoPiOver(x) ==
    IF x.cls = "nan" THEN NaN ELSE IF x.cls = "inf" THEN Fin(0) ELSE Fin(Sign(x.val))

----------------------------------------------------------------------------
(* airy_waves/sim.py *)

\* The wave objects the field operations are exercised on: finite, strictly
\* positive parameters (amplitude, wavelength, depth in mm; gravity in mm/s^2).
Amplitudes == {1000, 2000}
Wavelengths == {1000, 10000}
Depths == {2000, 9000, 50000}

\* The name `wave` before it is bound to an object.
Unbound == [unbound |-> TRUE]

\* The drawer and the driving loop while only the wave object is exercised.
NoFrame == [pc |-> "idle", i |-> 0, j |-> 0, lines |-> 0,
            arrows |-> {}, skipped |-> {}, queries |-> 0, flipped |-> FALSE]
DrawIdle == drawer = Unbound /\ frame = NoFrame
NoObs == [frames |-> 0, iterPolls |-> 0, quitSeen |-> FALSE,
          afterQuit |-> [updates |-> 0, draws |-> 0, incrs |-> 0, polls |-> 0],
          drawn |-> [t |-> 0, now |-> 0, before |-> 0]]
MainIdle ==
    /\ args = [dt |-> 0, duration |-> 0]
    /\ pc = "idle"
    /\ running = FALSE
    /\ current_time = 0
    /\ obs = NoObs

\* The constructor with the validation of its four parameters added.
AiryWaves__init__validated(a, wl, h, g) ==
    IF \E p \in {a, wl, h, g} : p.cls # "fin" \/ p.val <= 0
    THEN [raised |-> "InvalidParameter", self |-> Unbound]
    ELSE [raised |-> "none",
          self |-> [a |-> a, wavelength |-> wl, h |-> h, g |-> g,
                    k |-> Fin(1), omega |-> Fin(1), t |-> 0]]

\* AiryWaves.__init__: stores the parameters as given, k = 2*pi/wavelength
\* (float division: ZeroDivisionError for a zero wavelength),
\* omega = sqrt(g*k*tanh(k*h)), t = 0.0.
AiryWaves__init__(a, wl, h, g) ==
    IF wl.cls = "fin" /\ wl.val = 0
    THEN [raised |-> "ZeroDivisionError", self |-> Unbound]
    ELSE LET k == TwoPiOver(wl)
         IN  [raised |-> "none",
              self |-> [a |-> a, wavelength |-> wl, h |-> h, g |-> g,
                        k |-> k,
                        omega |-> FSqrt(FMul(FMul(g, k), FTanh(FMul(k, h)))),
                        t |-> 0]]

NewWave(a, wl, h, g) == AiryWaves__init__(Fin(a), Fin(wl), Fin(h), Fin(g)).self

\* k*x - omega*t, in eighths of a cycle.
Phase(x, w) == ((PhaseSteps * x) \div w.wavelength.val) - w.t

\* update as it would be if time were only allowed to advance.
update_monotonic(w, t) == [w EXCEPT !.t = IF t > w.t THEN t ELSE w.t]

\* AiryWaves.update: self.t = t
update(w, t) == [w EXCEPT !.t = t]

\* eta = a * cos(k*x - omega*t)
static_get_water_height(x, w) == (w.a.val * CosMilli(Phase(x, w))) \div 1000

ZeroVelocity == [form |-> "zero", cosTerm |-> 0, sinTerm |-> 0, depthArg |-> 0]

\* The u and v of linear wave theory: (a*g*k/omega) * cosh(k*(y+h))/cosh(k*h)
\* * cos(k*x - omega*t) and the same with sinh and sin.
GeneralVelocity(x, y, w) ==
    [form |-> "cosh_sinh",
     cosTerm |-> (w.a.val * CosMilli(Phase(x, w))) \div 1000,
     sinTerm |-> (w.a.val * SinMilli(Phase(x, w))) \div 1000,
     depthArg |-> y + w.h.val]

\* k*h > 50, with pi taken as 355/113.
DeepWater(w) == 2 * 355 * w.h.val > 50 * 113 * w.wavelength.val

\* The velocity query without the free-surface cutoff.
static_get_water_velocity_nocutoff(x, y, w) == GeneralVelocity(x, y, w)

\* The velocity query with a deep-water branch: exp(k*y) for both depth factors.
static_get_water_velocity_deep(x, y, w) ==
    LET eta == static_get_water_height(x, w)
    IN  IF y > eta THEN ZeroVelocity
        ELSE IF DeepWater(w)
             THEN [GeneralVelocity(x, y, w) EXCEPT !.form = "exp", !.depthArg = y]
             ELSE GeneralVelocity(x, y, w)

static_get_water_velocity(x, y, w) ==
    LET eta == static_get_water_height(x, w)
    IN  IF y > eta THEN ZeroVelocity ELSE GeneralVelocity(x, y, w)

\* The class as it would be with a force method.
AiryWavesMethods_force ==
    {"__init__", "update", "get_water_height", "get_water_velocity", "get_force"}

\* The methods the AiryWaves class defines.
AiryWavesMethods == {"__init__", "update", "get_water_height", "get_water_velocity"}

\* The attributes __init__ sets on the object.
AiryWavesFields == {"a", "wavelength", "h", "g", "k", "omega", "t"}

\* Attribute lookup on an AiryWaves object: a name the class does not define
\* raises AttributeError.
getattr(name) ==
    IF name \in AiryWavesMethods \cup AiryWavesFields THEN "found" ELSE "AttributeError"

----------------------------------------------------------------------------
(* The wave field under any interleaving of its operations. *)

XValues == {0, 1250, 2500, 5000}
YValues == {-3000, -1000, 0, 707, 1000, 1001, 2000, 2500}
TValues == (-MaxT)..MaxT

NoCall == [op |-> "none", args |-> <<>>, x |-> 0, y |-> 0, t |-> 0, mass |-> 0, dt |-> 0]
NoResult == [kind |-> "none", height |-> 0, velocity |-> ZeroVelocity]

Init ==
    /\ \E a \in Amplitudes, wl \in Wavelengths, h \in Depths :
          wave = NewWave(a, wl, h, 9810)
    /\ ctor = "ok"
    /\ call = NoCall
    /\ result = NoResult
    /\ lastUpdate = 0
    /\ DrawIdle
    /\ MainIdle

Update(t) ==
    /\ wave' = update(wave, t)
    /\ lastUpdate' = t
    /\ call' = [NoCall EXCEPT !.op = "update", !.t = t]
    /\ result' = NoResult
    /\ UNCHANGED <<ctor, drawVars, mainVars>>

GetWaterHeight(x) ==
    /\ call' = [NoCall EXCEPT !.op = "get_water_height", !.x = x]
    /\ result' = [NoResult EXCEPT !.kind = "height",
                                  !.height = static_get_water_height(x, wave)]
    /\ UNCHANGED <<wave, ctor, lastUpdate, drawVars, mainVars>>

GetWaterVelocity(x, y) ==
    /\ call' = [NoCall EXCEPT !.op = "get_water_velocity", !.x = x, !.y = y]
    /\ result' = [NoResult EXCEPT !.kind = "velocity",
                                  !.velocity = static_get_water_velocity(x, y, wave)]
    /\ UNCHANGED <<wave, ctor, lastUpdate, drawVars, mainVars>>

\* A caller asking the wave object for a force estimate, under any of the
\* names such a method could have.
ForceNames == {"get_force", "get_water_force", "force_on_mass"}
Masses == {1, 2}
DtValues == {-1, 0, 1}

ForceOnMass(name, x, y, mass, dt) ==
    /\ call' = [NoCall EXCEPT !.op = "force", !.x = x, !.y = y,
                              !.mass = mass, !.dt = dt]
    /\ result' = [NoResult EXCEPT !.kind =
                      IF getattr(name) = "found" THEN "force" ELSE "AttributeError"]
    /\ UNCHANGED <<wave, ctor, lastUpdate, drawVars, mainVars>>

Next ==
    \/ \E t \in TValues : Update(t)
    \/ \E x \in XValues : GetWaterHeight(x)
    \/ \E x \in XValues, y \in YValues : GetWaterVelocity(x, y)
    \/ \E name \in ForceNames, x \in {0, 1250}, y \in {-1000, 2000},
          mass \in Masses, dt \in DtValues : ForceOnMass(name, x, y, mass, dt)

Spec == Init /\ [][Next]_vars

----------------------------------------------------------------------------
(* Construction: wave = AiryWaves(amplitude, wavelength, water_depth, gravity) *)
(* with any floats, as main passes whatever argparse's float() accepted.       *)

CtorArgs == {Fin(-1000), Fin(0), Fin(1000), Inf(1), Inf(-1), NaN}

InitCtor ==
    /\ wave = Unbound
    /\ ctor = "none"
    /\ call = NoCall
    /\ result = NoResult
    /\ lastUpdate = 0
    /\ DrawIdle
    /\ MainIdle

Construct(a, wl, h, g) ==
    LET made == AiryWaves__init__(a, wl, h, g)
    IN  /\ call' = [NoCall EXCEPT !.op = "__init__", !.args = <<a, wl, h, g>>]
        /\ ctor' = IF made.raised = "none" THEN "ok" ELSE made.raised
        /\ wave' = made.self
        /\ result' = NoResult
        /\ lastUpdate' = 0
        /\ UNCHANGED <<drawVars, mainVars>>

NextCtor == \E a \in CtorArgs, wl \in CtorArgs, h \in CtorArgs, g \in CtorArgs :
               Construct(a, wl, h, g)

SpecCtor == InitCtor /\ [][NextCtor]_vars

----------------------------------------------------------------------------
(* airy_waves/drawer.py *)

\* The window size main passes by default.
width == 800
height == 600

\* self.margin = 1.0, in millimetres.
margin == 1000

\* The number of points of the free-surface polyline.
n_points == 200

\* int(n / d) for d > 0: truncation towards zero.
IntOfQuotient(n, d) == IF n >= 0 THEN n \div d ELSE -((-n) \div d)

AiryWavesDrawer__init__(w, grid_x, grid_y) ==
    [width |-> width, height |-> height, grid_x |-> grid_x, grid_y |-> grid_y,
     x_min |-> 0, x_max |-> 2 * w.wavelength.val,
     margin |-> margin, y_top |-> w.a.val + margin, y_bottom |-> -w.h.val]

\* sx = (x - x_min) * scale_x, sy = (y_top - y) * scale_y, as ints, where
\* scale_x = width / (x_max - x_min) and scale_y = height / (y_top - y_bottom).
sim_to_screen(d, x, y) ==
    <<IntOfQuotient((x - d.x_min) * d.width, d.x_max - d.x_min),
      IntOfQuotient((d.y_top - y) * d.height, d.y_top - d.y_bottom)>>

\* The coordinates of lattice point (i, j): x uniformly spaced, y by the
\* square of p = j / (grid_y - 1).  Either division raises for a zero divisor.
LatticePoint(d, i, j) ==
    IF d.grid_x - 1 = 0 \/ d.grid_y - 1 = 0
    THEN [raised |-> "ZeroDivisionError", x |-> 0, y |-> 0]
    ELSE [raised |-> "none",
          x |-> d.x_min + (i * (d.x_max - d.x_min)) \div (d.grid_x - 1),
          y |-> d.y_top - ((d.y_top - d.y_bottom) * j * j)
                              \div ((d.grid_y - 1) * (d.grid_y - 1))]

\* The test as it would be for points strictly below the surface only.
HasArrow_strict(y, free_surface) == y < free_surface

\* if y <= free_surface: the lattice point gets an arrow.
HasArrow(y, free_surface) == y <= free_surface

\* Both for loops are over: range(grid_x) is exhausted, or range(grid_y) is empty.
LatticeDone == frame.i >= drawer.grid_x \/ drawer.grid_y <= 0

\* draw(), up to the lattice loops: the background fill and the polyline of
\* the free surface (drawn since len(surface_points) > 1).
DrawBegin ==
    /\ frame.pc \in {"idle", "done"}
    /\ frame' = [NoFrame EXCEPT !.pc = "loop",
                                !.lines = IF n_points > 1 THEN n_points ELSE 0]
    /\ UNCHANGED <<fieldVars, drawer, mainVars>>

\* One pass through the body of the inner loop.
DrawPoint ==
    /\ frame.pc = "loop"
    /\ ~LatticeDone
    /\ LET pt == LatticePoint(drawer, frame.i, frame.j)
           last == frame.j + 1 >= drawer.grid_y
           at == [i |-> frame.i, j |-> frame.j, x |-> pt.x, y |-> pt.y]
       IN  IF pt.raised # "none"
           THEN frame' = [frame EXCEPT !.pc = pt.raised]
           ELSE LET free_surface == static_get_water_height(pt.x, wave)
                    stepped == [frame EXCEPT !.i = IF last THEN @ + 1 ELSE @,
                                             !.j = IF last THEN 0 ELSE @ + 1]
                IN  IF HasArrow(pt.y, free_surface)
                    THEN frame' = [stepped EXCEPT
                             !.queries = @ + 1,
                             !.arrows = @ \cup
                                 {[at |-> at,
                                   start_pos |-> sim_to_screen(drawer, pt.x, pt.y),
                                   velocity |-> static_get_water_velocity(pt.x, pt.y, wave)]}]
                    ELSE frame' = [stepped EXCEPT !.skipped = @ \cup {at}]
    /\ UNCHANGED <<fieldVars, drawer, mainVars>>

\* pygame.display.flip() and the return of draw().
DrawFlip ==
    /\ frame.pc = "loop"
    /\ LatticeDone
    /\ frame' = [frame EXCEPT !.pc = "done", !.flipped = TRUE]
    /\ UNCHANGED <<fieldVars, drawer, mainVars>>

GridSizes == 0..MaxGrid

InitDraw ==
    /\ \E a \in Amplitudes, wl \in Wavelengths, h \in Depths, t \in TValues :
          /\ wave = update(NewWave(a, wl, h, 9810), t)
          /\ lastUpdate = t
    /\ ctor = "ok"
    /\ call = NoCall
    /\ result = NoResult
    /\ \E gx \in GridSizes, gy \in GridSizes :
          drawer = AiryWavesDrawer__init__(wave, gx, gy)
    /\ frame = NoFrame
    /\ MainIdle

NextDraw == DrawBegin \/ DrawPoint \/ DrawFlip

SpecDraw == InitDraw /\ [][NextDraw]_vars

\* draw() as one call: the frame it leaves on the screen, or the exception
\* raised at the first lattice point.
draw(d, w) ==
    LET lattice == {<<i, j>> : i \in 0..(d.grid_x - 1), j \in 0..(d.grid_y - 1)}
        At(ij) == LET pt == LatticePoint(d, ij[1], ij[2])
                  IN  [i |-> ij[1], j |-> ij[2], x |-> pt.x, y |-> pt.y]
        shown == {ij \in lattice :
                     HasArrow(At(ij).y, static_get_water_height(At(ij).x, w))}
        begun == [NoFrame EXCEPT !.pc = "loop",
                                 !.lines = IF n_points > 1 THEN n_points ELSE 0]
    IN  IF lattice # {} /\ LatticePoint(d, 0, 0).raised # "none"
        THEN [begun EXCEPT !.pc = LatticePoint(d, 0, 0).raised]
        ELSE [begun EXCEPT
                 !.pc = "done",
                 !.flipped = TRUE,
                 !.i = IF lattice = {} THEN 0 ELSE d.grid_x,
                 !.queries = Cardinality(shown),
                 !.arrows = {[at |-> At(ij),
                              start_pos |-> sim_to_screen(d, At(ij).x, At(ij).y),
                              velocity |-> static_get_water_velocity(At(ij).x, At(ij).y, w)]
                             : ij \in shown},
                 !.skipped = {At(ij) : ij \in lattice \ shown}]

----------------------------------------------------------------------------
(* main.py: the driving loop.  Times are in ticks. *)

DtChoices == {-1, 0, 1, 2}
DurationChoices == {0, 2, 3}

\* The counters of obs stop counting here; no run with dt # 0 gets this far.
MaxFrames == MaxTime + 3

Count(n) == IF n < MaxFrames THEN n + 1 ELSE n

InitMain ==
    /\ wave = NewWave(1000, 10000, 50000, 9810)
    /\ ctor = "ok"
    /\ call = NoCall
    /\ result = NoResult
    /\ lastUpdate = 0
    /\ drawer = AiryWavesDrawer__init__(wave, 3, 3)
    /\ frame = NoFrame
    /\ \E dt \in DtChoices, duration \in DurationChoices :
          args = [dt |-> dt, duration |-> duration]
    /\ current_time = 0
    /\ running = TRUE
    /\ pc = "while"
    /\ obs = NoObs

\* The loop test as it would be if the flag were not consulted.
LoopContinues_always(r) == TRUE

\* while running:
LoopContinues(r) == r

\* current_time += 2 * args.dt
Advanced_twice(now, a) == now + 2 * a.dt

\* current_time += args.dt
Advanced(now, a) == now + a.dt

\* args.duration > 0 and current_time > args.duration
DurationExceeded(now, a) == a.duration > 0 /\ now > a.duration

WhileTest ==
    /\ pc = "while"
    /\ pc' = IF LoopContinues(running) THEN "handle_events" ELSE "pygame_quit"
    /\ obs' = [obs EXCEPT !.iterPolls = 0]
    /\ UNCHANGED <<fieldVars, drawVars, args, running, current_time>>

\* running = drawer.handle_events(): False if the polled events hold a QUIT.
HandleEvents(quit) ==
    /\ pc = "handle_events"
    /\ quit \/ (current_time \in (-MaxTime)..MaxTime)
    /\ running' = ~quit
    /\ pc' = "duration_check"
    /\ obs' = [obs EXCEPT !.iterPolls = @ + 1,
                          !.quitSeen = @ \/ quit,
                          !.afterQuit.polls = IF obs.quitSeen THEN 1 ELSE 0]
    /\ UNCHANGED <<fieldVars, drawVars, args, current_time>>

DurationCheck ==
    /\ pc = "duration_check"
    /\ IF DurationExceeded(current_time, args)
       THEN running' = FALSE /\ pc' = "while"
       ELSE running' = running /\ pc' = "update"
    /\ UNCHANGED <<fieldVars, drawVars, args, current_time, obs>>

WaveUpdate ==
    /\ pc = "update"
    /\ wave' = update(wave, current_time)
    /\ lastUpdate' = current_time
    /\ pc' = "draw"
    /\ obs' = [obs EXCEPT !.afterQuit.updates = IF obs.quitSeen THEN @ + 1 ELSE @]
    /\ UNCHANGED <<ctor, call, result, drawVars, args, running, current_time>>

DrawerDraw ==
    /\ pc = "draw"
    /\ frame' = draw(drawer, wave)
    /\ pc' = IF frame'.pc = "done" THEN "increment" ELSE "raised"
    /\ obs' = [obs EXCEPT !.frames = Count(@),
                          !.drawn = [t |-> wave.t, now |-> current_time,
                                     before |-> obs.frames],
                          !.afterQuit.draws = IF obs.quitSeen THEN @ + 1 ELSE @]
    /\ UNCHANGED <<fieldVars, drawer, args, running, current_time>>

Increment ==
    /\ pc = "increment"
    /\ current_time' = Advanced(current_time, args)
    /\ pc' = "tick"
    /\ obs' = [obs EXCEPT !.afterQuit.incrs = IF obs.quitSeen THEN @ + 1 ELSE @]
    /\ UNCHANGED <<fieldVars, drawVars, args, running>>

\* drawer.tick(args.fps): a wait of bounded length.
Tick ==
    /\ pc = "tick"
    /\ pc' = "while"
    /\ UNCHANGED <<fieldVars, drawVars, args, running, current_time, obs>>

PygameQuit ==
    /\ pc = "pygame_quit"
    /\ pc' = "exited"
    /\ UNCHANGED <<fieldVars, drawVars, args, running, current_time, obs>>

NextMain ==
    \/ WhileTest
    \/ \E quit \in BOOLEAN : HandleEvents(quit)
    \/ DurationCheck
    \/ WaveUpdate
    \/ DrawerDraw
    \/ Increment
    \/ Tick
    \/ PygameQuit

SpecMain == InitMain /\ [][NextMain]_vars

\* The loop is one thread that always takes its next step: polling does not
\* block and the frame-pacing wait ends.
FairMain == SpecMain /\ WF_vars(NextMain)

----------------------------------------------------------------------------
(* Claims about the wave field. *)

ValidParameter(p) == p.cls = "fin" /\ p.val > 0

SurfaceAtCall == static_get_water_height(call.x, wave)

\* C1: a velocity query at a point strictly above get_water_height(x) at the
\* stored time returns exactly (0, 0), and the cosh/sinh formula is evaluated
\* only for points with y <= get_water_height(x).
C1_ZeroAboveSurface ==
    call.op = "get_water_velocity" =>
        /\ call.y > SurfaceAtCall => result.velocity = ZeroVelocity
        /\ result.velocity.form # "zero" => call.y <= SurfaceAtCall

\* C1 witness: after an update to a nonzero time, a query strictly above the
\* moved surface (and below the amplitude) answered (0, 0).
C1_Witness ==
    /\ call.op = "get_water_velocity"
    /\ wave.t # 0
    /\ call.y > SurfaceAtCall
    /\ call.y < wave.a.val
    /\ result.velocity = ZeroVelocity

\* C2: the stored time is the argument of the most recent update (0 before
\* any), whatever the earlier times were; queries leave it alone, so a height
\* query is evaluated at the time of the most recent update.
C2_StoredTimeIsLastUpdate ==
    /\ wave.t = lastUpdate
    /\ call.op = "get_water_height" =>
          result.height = (wave.a.val * CosMilli(Phase(call.x, [wave EXCEPT !.t = lastUpdate])))
                              \div 1000

\* C2 witness: a height query answered after time was set back below zero.
C2_Witness ==
    /\ call.op = "get_water_height"
    /\ lastUpdate < 0
    /\ wave.t = lastUpdate
    /\ result.height # wave.a.val

----------------------------------------------------------------------------
(* Claims about the drawer. *)

SurfaceAt(x) == static_get_water_height(x, wave)

\* C7 as stated: an arrow is drawn for a lattice point only if the point is
\* strictly below the free surface at the stored time.
C7_Original == \A arrow \in frame.arrows : arrow.at.y < SurfaceAt(arrow.at.x)

\* C7 amended: an arrow is drawn for a lattice point exactly when the point
\* is at or below the free surface (y <= get_water_height(x)), its velocity
\* then being computed, not cut off; a point strictly above is skipped with
\* no drawing call and no velocity query.
C7_ArrowIffAtOrBelow ==
    /\ \A arrow \in frame.arrows :
          /\ arrow.at.y <= SurfaceAt(arrow.at.x)
          /\ arrow.velocity.form # "zero"
    /\ \A at \in frame.skipped :
          /\ at.y > SurfaceAt(at.x)
          /\ \A arrow \in frame.arrows : arrow.at # at
    /\ frame.queries = Cardinality(frame.arrows)

\* C7 witness: a finished frame with an arrow at a lattice point lying
\* exactly on the free surface, and a skipped point above it.
C7_Witness ==
    /\ frame.pc = "done"
    /\ \E arrow \in frame.arrows : arrow.at.y = SurfaceAt(arrow.at.x)
    /\ frame.skipped # {}

\* C8: for every grid_x >= 1 and grid_y >= 1, draw() raises no error of its own.
C8_DrawNeverRaises ==
    (drawer.grid_x >= 1 /\ drawer.grid_y >= 1) => frame.pc # "ZeroDivisionError"

\* The whole-call form of draw() leaves the frame the loops leave.
DrawAgrees ==
    frame.pc \in {"done", "ZeroDivisionError"} => frame = draw(drawer, wave)

----------------------------------------------------------------------------
(* Claims about the driving loop. *)

\* C4: the loop reaches pygame.quit() once a quit event is polled and, when
\* duration > 0, also without any quit event, for every dt.
C4_Terminates == (args.duration > 0) ~> (pc = "exited")

\* C9 as stated: the quit signal is polled once per iteration, and once a quit
\* event has been observed no further update, draw or time increment happens.
C9_Original ==
    /\ pc \in {"duration_check", "update", "draw", "increment", "tick"} =>
          obs.iterPolls = 1
    /\ obs.quitSeen =>
          /\ obs.afterQuit.updates = 0
          /\ obs.afterQuit.draws = 0
          /\ obs.afterQuit.incrs = 0

\* C9 amended: the quit signal is polled once per iteration; the iteration
\* that observes the quit event still runs to its end (at most one more
\* update, one more draw and one more time increment, none if the duration
\* is exceeded), and the loop then exits without polling again.
C9_QuitEndsAfterIteration ==
    /\ pc \in {"duration_check", "update", "draw", "increment", "tick"} =>
          obs.iterPolls = 1
    /\ obs.quitSeen =>
          /\ obs.afterQuit.updates <= 1
          /\ obs.afterQuit.draws <= 1
          /\ obs.afterQuit.incrs <= 1
          /\ obs.afterQuit.polls = 0
          /\ ~running

\* C9 witness: the loop has exited after a quit event, one frame having been
\* updated, drawn and counted after the event was observed.
C9_Witness ==
    /\ pc = "exited"
    /\ obs.quitSeen
    /\ obs.frames > 1
    /\ obs.afterQuit = [updates |-> 1, draws |-> 1, incrs |-> 1, polls |-> 0]

\* C10: every frame is drawn with the stored time equal to current_time,
\* which is dt times the number of frames drawn before it, and, when
\* duration > 0, never with a stored time greater than duration.
C10_FrameTimes ==
    obs.frames > 0 =>
        /\ obs.drawn.t = obs.drawn.now
        /\ obs.drawn.now = args.dt * obs.drawn.before
        /\ args.duration > 0 => obs.drawn.t <= args.duration

\* C10 witness: a third frame drawn at time 2 * dt = duration.
C10_Witness ==
    /\ pc = "increment"
    /\ args.dt > 0
    /\ obs.drawn.before = 2
    /\ obs.drawn.t = args.duration

====
